---- MODULE Spec2Model ----
(***************************************************************************)
(* Model of EoepcaCalrissianRunnerExecutionHandler (service.py): the       *)
(* handler's construction, pre_execution_hook and post_execution_hook, the *)
(* process environment they share, the external calls they make and the    *)
(* end of the service function that runs them; and                         *)
(* get_user_name and handle_outputs called on their own.                   *)
(***************************************************************************)
EXTENDS Integers, Sequences, FiniteSets, TLC

VARIABLES
    environ,                \* os.environ: variable name -> value, Absent when not set
    conf,                   \* the static part of conf: main, eoepca, auth_env, lenv
    additional_parameters,  \* conf["additional_parameters"]
    handler,                \* the fields of the handler object (self.*)
    stacio_access_point,    \* CustomStacIO.access_point (class attribute)
    calls,                  \* external calls made so far, in order, each with what it saw
    proxy_at_hook_start,    \* HTTP_PROXY at the moment the last hook started
    exception,              \* the exception the last hook raised, NoException when it returned
    pc,                     \* position of the run
    arguments,              \* arguments of a method the host calls directly
    returned,               \* what the service or that method returned, Unset before it returns
    outputs,                \* the outputs dict the host passes to the service: its keys in
                            \* insertion order, and the slot of each key
    cwd                     \* the working directory of the process

vars == <<environ, conf, additional_parameters, handler, stacio_access_point,
          calls, proxy_at_hook_start, exception, pc, arguments, returned,
          outputs, cwd>>

----------------------------------------------------------------------------
(* Values *)

\* Python's None
None == "<None>"
\* a variable that is not in os.environ
Absent == "<absent>"
\* an attribute that was never assigned (reading it raises AttributeError)
Unset == "<unset>"

\* a hook that returned
NoException == "none"

\* the empty dict {}
EmptyDict == [k \in {} |-> None]

\* bound on the tool logs handed to handle_outputs
MaxToolLogs == 2

\* bounds on the output catalog
MaxCollections == 1
MaxItems == 2

\* values HTTP_PROXY holds when the handler is constructed
ProxyAtConstruction == {Absent, "", "http://proxy:8080"}
\* values other code of the process gives HTTP_PROXY later (Absent: it clears it)
ProxySettings == {Absent, "http://proxy:8080", "http://other:3128"}

\* Python truthiness of an optional string
Truthy(v) == v # None /\ v # Absent /\ v # ""

\* os.environ.get(name, default)
EnvironGet(env, name, default) == IF env[name] = Absent THEN default ELSE env[name]

\* dict.get(key, default)
DictGet(d, key, default) == IF key \in DOMAIN d THEN d[key] ELSE default

\* d[key] = value on a dict
DictSet(d, key, value) == (key :> value) @@ d

----------------------------------------------------------------------------
(* Identity token *)

\* tokens the host may hand over in conf["auth_env"]["jwt"]
Tokens == {"", "jwt-malformed", "jwt-username-alice", "jwt-no-user-claim"}

\* jwt.decode(token, options={"verify_signature": False}): the payload, or a raise
JwtDecode(token) ==
    CASE token = "jwt-username-alice" ->
            [ok |-> TRUE, payload |-> ("username" :> "alice") @@ ("preferred_username" :> "al")]
      [] token = "jwt-no-user-claim" ->
            [ok |-> TRUE, payload |-> ("sub" :> "1234")]
      [] OTHER -> [ok |-> FALSE, payload |-> EmptyDict]

UserNameKeys == <<"username", "user_name", "preferred_username">>

RECURSIVE GetUserNameFrom(_, _)
GetUserNameFrom(decodedJwt, i) ==
    IF i > Len(UserNameKeys) THEN ""
    ELSE IF UserNameKeys[i] \in DOMAIN decodedJwt THEN decodedJwt[UserNameKeys[i]]
    ELSE GetUserNameFrom(decodedJwt, i + 1)

get_user_name(decodedJwt) == GetUserNameFrom(decodedJwt, 1)

----------------------------------------------------------------------------
(* Configuration defaults *)

StageInDefaults ==
    ("STAGEIN_AWS_SERVICEURL" :> "http://s3-service.zoo.svc.cluster.local:9000")
 @@ ("STAGEIN_AWS_ACCESS_KEY_ID" :> "minio-admin")
 @@ ("STAGEIN_AWS_SECRET_ACCESS_KEY" :> "minio-secret-password")
 @@ ("STAGEIN_AWS_REGION" :> "RegionOne")

StageOutDefaults ==
    ("STAGEOUT_AWS_SERVICEURL" :> "http://s3-service.zoo.svc.cluster.local:9000")
 @@ ("STAGEOUT_AWS_ACCESS_KEY_ID" :> "minio-admin")
 @@ ("STAGEOUT_AWS_SECRET_ACCESS_KEY" :> "minio-secret-password")
 @@ ("STAGEOUT_AWS_REGION" :> "RegionOne")
 @@ ("STAGEOUT_OUTPUT" :> "eoepca")
 @@ ("STAGEOUT_WORKSPACE" :> "default")
 @@ ("STAGEOUT_PULSAR_URL" :> None)
 @@ ("STAGEOUT_ACCESS_POINT" :> None)
 @@ ("WORKSPACE_DOMAIN" :> None)

ConfigDefaults == StageInDefaults @@ StageOutDefaults

\* the five stage-out credential parameters
StageOutCredentialParams ==
    {"STAGEOUT_AWS_SERVICEURL", "STAGEOUT_AWS_ACCESS_KEY_ID",
     "STAGEOUT_AWS_SECRET_ACCESS_KEY", "STAGEOUT_AWS_REGION", "STAGEOUT_OUTPUT"}

\* init_config_defaults: every defaulted parameter is overwritten from the environment
init_config_defaults(params, env) ==
    [k \in DOMAIN ConfigDefaults |-> EnvironGet(env, k, ConfigDefaults[k])] @@ params

EnvNames ==
    DOMAIN ConfigDefaults \cup
    {"HTTP_PROXY", "AWS_S3_ENDPOINT", "AWS_ACCESS_KEY_ID", "AWS_SECRET_ACCESS_KEY",
     "AWS_REGION"}

----------------------------------------------------------------------------
(* Proxy handling *)

\* unset_http_proxy_env: os.environ.pop("HTTP_PROXY", None)
unset_http_proxy_env(env) == [env EXCEPT !["HTTP_PROXY"] = Absent]

\* restore_http_proxy_env: only a truthy value captured at construction is put back
restore_http_proxy_env(env, http_proxy_env) ==
    IF Truthy(http_proxy_env)
    THEN [env EXCEPT !["HTTP_PROXY"] = http_proxy_env]
    ELSE env

----------------------------------------------------------------------------
(* Construction *)

\* environments the process may be started with
StageOutFromEnvironment ==
    ("STAGEOUT_AWS_SERVICEURL" :> "https://s3.platform.example")
 @@ ("STAGEOUT_AWS_ACCESS_KEY_ID" :> "env-access")
 @@ ("STAGEOUT_AWS_SECRET_ACCESS_KEY" :> "env-secret")
 @@ ("STAGEOUT_AWS_REGION" :> "eu-west-2")
 @@ ("STAGEOUT_OUTPUT" :> "env-bucket")

InitialEnvirons ==
    { [n \in EnvNames |->
          CASE n = "HTTP_PROXY" -> proxy
            [] n = "STAGEOUT_PULSAR_URL" -> pulsar
            [] n = "WORKSPACE_DOMAIN" -> domain
            [] n \in DOMAIN StageOutFromEnvironment ->
                 IF fromEnv THEN StageOutFromEnvironment[n] ELSE Absent
            [] OTHER -> Absent] :
        proxy \in ProxyAtConstruction,
        pulsar \in {Absent, "pulsar://pulsar:6650"},
        domain \in {Absent, "platform.example"},
        fromEnv \in BOOLEAN }

\* conf as the host passes it (without additional_parameters)
InitialConfs ==
    [ main : {[tmpPath |-> "/tmp/zTmp"]},
      eoepca : [workspace_url : {"", "https://workspace-api"},
                workspace_prefix : {"", "ws"},
                domain : {"platform.example"}],
      auth_env : [jwt : Tokens],
      lenv : {EmptyDict, ("usid" :> "usid-42")} ]

\* inputs as the host passes them
InitialInputs == {EmptyDict, ("workspace" :> ("value" :> "alice"))}

\* EoepcaCalrissianRunnerExecutionHandler.__init__
Construct(c, inputs, env) ==
    [ http_proxy_env |-> EnvironGet(env, "HTTP_PROXY", None),
      domain |-> c.eoepca.domain,
      workspace_url |-> c.eoepca.workspace_url,
      workspace_prefix |-> c.eoepca.workspace_prefix,
      use_workspace |-> (c.eoepca.workspace_url # "" /\ c.eoepca.workspace_prefix # ""),
      workspace_name |-> DictGet(DictGet(inputs, "workspace", EmptyDict), "value", "default"),
      ades_rx_token |-> c.auth_env.jwt,
      username |-> Unset,
      feature_collection |-> [kind |-> "None"] ]

\* outputs as the host passes them, one slot per declared output: no declared
\* output, one, or two
InitialOutputs ==
    { [keys |-> <<>>, slots |-> EmptyDict],
      [keys |-> <<"stac">>, slots |-> ("stac" :> ("value" :> None))],
      [keys |-> <<"stac", "a">>,
       slots |-> ("stac" :> ("value" :> None)) @@ ("a" :> ("value" :> None))] }

\* the calls of the service by the host: the default workspace with no or one
\* declared output, a named workspace with two (the hooks never read outputs)
ServiceCalls ==
    { call \in [inputs : InitialInputs, outputs : InitialOutputs] :
        call.inputs # EmptyDict <=> Len(call.outputs.keys) > 1 }

\* runner.get_namespace_name(), a name the runner makes up
RunnerNamespace == "<namespace>"

\* the service function up to runner.execute(): the handler is constructed and
\* the process has moved to the directory of this execution (lines 453-475)
Init ==
    \E env \in InitialEnvirons, c \in InitialConfs, call \in ServiceCalls :
      LET inputs == call.inputs
          outs == call.outputs
      IN
        /\ environ = env
        /\ conf = c
        /\ additional_parameters = init_config_defaults(EmptyDict, env)
        /\ handler = Construct(c, inputs, env)
        /\ stacio_access_point = None
        /\ calls = <<>>
        /\ proxy_at_hook_start = Absent
        /\ exception = NoException
        /\ pc = "constructed"
        /\ arguments = EmptyDict
        /\ returned = Unset
        /\ outputs = outs
        /\ cwd = <<c.main.tmpPath, RunnerNamespace>>

----------------------------------------------------------------------------
(* The process environment between hooks *)

\* other code of the process (the host, the execution engine) sets or clears
\* HTTP_PROXY while no hook runs
EnvironmentChange ==
    /\ pc \in {"constructed", "pre_done"}
    /\ \E v \in ProxySettings :
          /\ v # environ["HTTP_PROXY"]
          /\ environ' = [environ EXCEPT !["HTTP_PROXY"] = v]
    /\ UNCHANGED <<conf, additional_parameters, handler, stacio_access_point,
                   calls, proxy_at_hook_start, exception, pc, arguments, returned,
          outputs, cwd>>

----------------------------------------------------------------------------
(* External collaborators of pre_execution_hook *)

\* what the in-cluster configuration and the workspace ConfigMap read may give:
\* the ConfigMap with or without S3_BUCKET_WORKSPACE, an ApiException (caught),
\* or no in-cluster configuration at all (load_incluster_config raises)
K8sOutcomes ==
    { [kind |-> "configmap", data |-> ("S3_BUCKET_WORKSPACE" :> "ws-bucket")],
      [kind |-> "configmap", data |-> EmptyDict],
      [kind |-> "ApiException", data |-> EmptyDict],
      [kind |-> "ConfigException", data |-> EmptyDict] }

WellFormedCredentials ==
    ("endpoint" :> "https://minio.workspace.example")
 @@ ("access" :> "ws-access")
 @@ ("secret" :> "ws-secret")
 @@ ("region" :> "eu-central-1")
 @@ ("bucketname" :> "ws-alice")

PartialCredentials ==
    ("endpoint" :> "https://minio.workspace.example")
 @@ ("access" :> "ws-access")
 @@ ("secret" :> "ws-secret")
 @@ ("bucketname" :> "ws-alice")

CredentialsBody(creds) == [kind |-> "json", doc |-> ("storage" :> ("credentials" :> creds))]
ErrorBody == [kind |-> "json", doc |-> ("detail" :> "Not Found")]
TextBody == [kind |-> "text", doc |-> EmptyDict]

\* responses of GET {workspace_url}/workspaces/{prefix}-{username}
WorkspaceResponses ==
    { [status_code |-> 200, body |-> CredentialsBody(WellFormedCredentials)],
      [status_code |-> 200, body |-> CredentialsBody(PartialCredentials)],
      [status_code |-> 200, body |-> ErrorBody],
      [status_code |-> 200, body |-> TextBody],
      [status_code |-> 300, body |-> CredentialsBody(WellFormedCredentials)],
      [status_code |-> 304, body |-> TextBody],
      [status_code |-> 404, body |-> ErrorBody],
      [status_code |-> 503, body |-> TextBody] }

\* a success test that takes client errors for good responses
ResponseOk_ServerErrorsOnly(response) == response.status_code \notin 500..599

\* requests.Response.ok: raise_for_status() does not raise, which it does for the
\* statuses 400 to 599 only
ResponseOk(response) == response.status_code \notin 400..599

\* the body is a well-formed credentials document
WellFormedBody(body) ==
    /\ body.kind = "json"
    /\ "storage" \in DOMAIN body.doc
    /\ "credentials" \in DOMAIN body.doc["storage"]

\* credentials stored with the access key and the secret key taken from each other's field
StoreCredentials_Swapped(params, storage_credentials) ==
    ("STAGEOUT_AWS_SERVICEURL" :> DictGet(storage_credentials, "endpoint", None))
 @@ ("STAGEOUT_AWS_ACCESS_KEY_ID" :> DictGet(storage_credentials, "secret", None))
 @@ ("STAGEOUT_AWS_SECRET_ACCESS_KEY" :> DictGet(storage_credentials, "access", None))
 @@ ("STAGEOUT_AWS_REGION" :> DictGet(storage_credentials, "region", None))
 @@ ("STAGEOUT_OUTPUT" :> DictGet(storage_credentials, "bucketname", None))
 @@ params

\* lines 188-192: the response's credentials written into the scratch parameters
StoreCredentials(params, storage_credentials) ==
    ("STAGEOUT_AWS_SERVICEURL" :> DictGet(storage_credentials, "endpoint", None))
 @@ ("STAGEOUT_AWS_ACCESS_KEY_ID" :> DictGet(storage_credentials, "access", None))
 @@ ("STAGEOUT_AWS_SECRET_ACCESS_KEY" :> DictGet(storage_credentials, "secret", None))
 @@ ("STAGEOUT_AWS_REGION" :> DictGet(storage_credentials, "region", None))
 @@ ("STAGEOUT_OUTPUT" :> DictGet(storage_credentials, "bucketname", None))
 @@ params

\* lines 203-207: the identifiers of the run written into the scratch parameters
StoreRunParameters(params, lenv, workspace_name, access_point) ==
    ("collection_id" :> DictGet(lenv, "usid", ""))
 @@ ("process" :> "processing-results")
 @@ ("STAGEOUT_WORKSPACE" :> workspace_name)
 @@ ("STAGEOUT_ACCESS_POINT" :> access_point)
 @@ params

\* a lookup that forgets to give up the workspace
FallBackToDefaults_KeepsWorkspace(h) == h

\* lines 193-199: a BAD response: the pre-configured storage details stay, and the
\* workspace is given up
FallBackToDefaults(h) == [h EXCEPT !.use_workspace = FALSE]

\* lines 164-201: the workspace lookup, given the handler after the token step.
\* Gives the handler, the parameters, the calls and the exception raised, if any.
WorkspaceLookup(h, params, env, log, response) ==
    IF ~h.use_workspace
    THEN [exception |-> NoException, handler |-> h, params |-> params, calls |-> log]
    ELSE IF h.username = Unset
    THEN \* self.username was never assigned: AttributeError at line 168
         [exception |-> "AttributeError", handler |-> h, params |-> params, calls |-> log]
    ELSE LET get == [op |-> "GET",
                     url |-> <<h.workspace_url, "workspaces", h.workspace_prefix, h.username>>,
                     proxy |-> env["HTTP_PROXY"],
                     request |-> ("Authorization" :> <<"Bearer", h.ades_rx_token>>),
                     response |-> response]
             log1 == Append(log, get)
         IN  IF ResponseOk(response)
             THEN IF WellFormedBody(response.body)
                  THEN [exception |-> NoException, handler |-> h,
                        params |-> StoreCredentials(params,
                                       response.body.doc["storage"]["credentials"]),
                        calls |-> log1]
                  ELSE \* response.json() or the ["storage"]["credentials"] lookup raises
                       [exception |-> IF response.body.kind = "json"
                                      THEN "KeyError" ELSE "JSONDecodeError",
                        handler |-> h, params |-> params, calls |-> log1]
             ELSE [exception |-> NoException,
                   handler |-> FallBackToDefaults(h),
                   params |-> params, calls |-> log1]

\* lines 139-207: the body of pre_execution_hook's try block
PreExecutionBody(h, params, env, log, k8s, response) ==
    IF k8s.kind = "ConfigException"
    THEN [exception |-> "ConfigException", handler |-> h, params |-> params, calls |-> log]
    ELSE
    LET read == [op |-> "read_namespaced_config_map",
                 url |-> <<"ws-", h.workspace_name, "workspace-config">>,
                 proxy |-> env["HTTP_PROXY"],
                 request |-> EmptyDict,
                 response |-> k8s]
        log1 == Append(log, read)
        access_point == IF k8s.kind = "configmap"
                        THEN DictGet(k8s.data, "S3_BUCKET_WORKSPACE", None)
                        ELSE None
        decoded == JwtDecode(h.ades_rx_token)
    IN  IF h.ades_rx_token # "" /\ ~decoded.ok
        THEN [exception |-> "DecodeError", handler |-> h, params |-> params, calls |-> log1]
        ELSE
        LET h1 == IF h.ades_rx_token # ""
                  THEN [h EXCEPT !.username = get_user_name(decoded.payload)]
                  ELSE h
            looked == WorkspaceLookup(h1, params, env, log1, response)
        IN  IF looked.exception # NoException
            THEN looked
            ELSE [looked EXCEPT !.params =
                     StoreRunParameters(looked.params, conf.lenv,
                                        h1.workspace_name, access_point)]

\* the responses pre_execution_hook gets to read: one only when the lookup is sent
WorkspaceResponsesRead(h, k8s) ==
    IF /\ k8s.kind # "ConfigException"
       /\ h.use_workspace
       /\ h.ades_rx_token # ""
       /\ JwtDecode(h.ades_rx_token).ok
    THEN WorkspaceResponses
    ELSE {[status_code |-> 503, body |-> TextBody]}

\* pre_execution_hook: unset the proxy, run the body, restore the proxy in finally
PreExecutionHook ==
    /\ pc = "constructed"
    /\ \E k8s \in K8sOutcomes :
       \E response \in WorkspaceResponsesRead(handler, k8s) :
          LET env1 == unset_http_proxy_env(environ)
              done == PreExecutionBody(handler, additional_parameters, env1, calls,
                                       k8s, response)
          IN  /\ handler' = done.handler
              /\ additional_parameters' = done.params
              /\ calls' = done.calls
              /\ environ' = restore_http_proxy_env(env1, handler.http_proxy_env)
              /\ exception' = done.exception
              /\ pc' = IF done.exception # NoException THEN "pre_raised" ELSE "pre_done"
    /\ proxy_at_hook_start' = environ["HTTP_PROXY"]
    /\ UNCHANGED <<conf, stacio_access_point, arguments, returned, outputs, cwd>>

----------------------------------------------------------------------------
(* The output catalog (pystac objects) *)

\* pystac.Asset.to_dict: href, the media type when there is one, then the extra fields
AssetToDict(asset) ==
    asset.extra_fields
 @@ (IF asset.media_type # None THEN ("type" :> asset.media_type) ELSE EmptyDict)
 @@ ("href" :> asset.href)

\* pystac.Asset.from_dict: href and type are taken out, the rest becomes extra_fields
AssetFromDict(d) ==
    [ href |-> d["href"],
      media_type |-> DictGet(d, "type", None),
      extra_fields |-> [k \in DOMAIN d \ {"href", "type"} |-> d[k]] ]

\* pystac.Asset.clone
AssetClone(asset) ==
    [href |-> asset.href, media_type |-> asset.media_type, extra_fields |-> asset.extra_fields]

\* storage metadata that yields to fields the asset already carries
AnnotateAsset_KeepsExisting(asset, params) ==
    AssetFromDict(
        AssetToDict(asset)
     @@ ("storage:platform" :> "EOEPCA")
     @@ ("storage:requester_pays" :> FALSE)
     @@ ("storage:tier" :> "Standard")
     @@ ("storage:region" :> params["STAGEOUT_AWS_REGION"])
     @@ ("storage:endpoint" :> params["STAGEOUT_AWS_SERVICEURL"]))

\* lines 258-264: the asset's dict with the storage metadata, made an asset again
AnnotateAsset(asset, params) ==
    AssetFromDict(
        ("storage:platform" :> "EOEPCA")
     @@ ("storage:requester_pays" :> FALSE)
     @@ ("storage:tier" :> "Standard")
     @@ ("storage:region" :> params["STAGEOUT_AWS_REGION"])
     @@ ("storage:endpoint" :> params["STAGEOUT_AWS_SERVICEURL"])
     @@ AssetToDict(asset))

\* pystac.Item.clone
ItemClone(item) ==
    [ id |-> item.id,
      collection_id |-> item.collection_id,
      assets |-> [a \in DOMAIN item.assets |-> AssetClone(item.assets[a])] ]

\* lines 257-266: one item of the loop: annotate every asset, stamp the collection id, clone
ConsolidateItem(item, params, collection_id) ==
    ItemClone([ id |-> item.id,
                collection_id |-> collection_id,
                assets |-> [a \in DOMAIN item.assets |->
                               AnnotateAsset(item.assets[a], params)] ])

\* pystac.Item.to_dict: "collection" is written only for a collection id that
\* is neither None nor empty
ItemToDict(item) ==
    ("type" :> "Feature")
 @@ ("id" :> item.id)
 @@ ("assets" :> [a \in DOMAIN item.assets |-> AssetToDict(item.assets[a])])
 @@ (IF Truthy(item.collection_id) THEN ("collection" :> item.collection_id) ELSE EmptyDict)

\* lines 255-267: itemFinal, then ItemCollection(items=itemFinal)
ItemCollectionOf(items, params, collection_id) ==
    [ class |-> "ItemCollection",
      items |-> [n \in 1..Len(items) |-> ConsolidateItem(items[n], params, collection_id)] ]

\* collection.to_dict() of either class
CollectionToDict(collection) ==
    IF collection.class = "ItemCollection"
    THEN ("type" :> "FeatureCollection")
      @@ ("features" :> [n \in 1..Len(collection.items) |-> ItemToDict(collection.items[n])])
    ELSE ("type" :> "Collection")
      @@ ("id" :> collection.id)
      @@ ("links" :> <<[rel |-> "self", href |-> collection.self_href]>>)

\* a dict that keeps the id the catalog gave
ConsolidatedDict_KeepsId(collection, collection_id) == CollectionToDict(collection)

\* lines 278-279: the dict that is returned and registered
ConsolidatedDict(collection, collection_id) ==
    DictSet(CollectionToDict(collection), "id", collection_id)

\* json.dumps(d, indent=2)
JsonDumps(d) == [kind |-> "json", value |-> d]

PlainAsset ==
    [href |-> "s3://ws-bucket/run/data.tif", media_type |-> "image/tiff",
     extra_fields |-> EmptyDict]
TaggedAsset ==
    [href |-> "s3://ws-bucket/run/preview.png", media_type |-> None,
     extra_fields |-> ("storage:tier" :> "Glacier") @@ ("storage:platform" :> "AWS")]

\* items a catalog may hold
CatalogItems ==
    { [id |-> "item-a", collection_id |-> None, assets |-> ("data" :> PlainAsset)],
      [id |-> "item-b", collection_id |-> "catalog-collection",
       assets |-> ("data" :> PlainAsset) @@ ("preview" :> TaggedAsset)] }

\* collections a catalog may hold
CatalogCollections ==
    { [class |-> "Collection", id |-> "catalog-collection",
       self_href |-> "s3://ws-bucket/run/catalog-collection/collection.json"] }

SeqsUpTo(S, n) == UNION { [1..m -> S] : m \in 0..n }

\* what read_file gives: it raises, or a catalog with collections and items in
\* traversal order; items_resolvable is false when get_all_items() raises
CatalogReads ==
    { [ok |-> FALSE, collections |-> <<>>, items |-> <<>>, items_resolvable |-> FALSE] }
    \cup
    { [ok |-> TRUE, collections |-> cs, items |-> is, items_resolvable |-> TRUE] :
        cs \in SeqsUpTo(CatalogCollections, MaxCollections),
        is \in SeqsUpTo(CatalogItems, MaxItems) }
    \cup
    { [ok |-> TRUE, collections |-> <<>>, items |-> is, items_resolvable |-> FALSE] :
        is \in [1..1 -> CatalogItems] }

\* the output of the execution, as the engine hands it to post_execution_hook;
\* a URI is its scheme prefix and the rest
Outputs ==
    { EmptyDict,
      ("StacCatalogUri" :> <<"s3://", "ws-bucket/run/catalog.json">>),
      ("StacCatalogUri" :> <<"", "ws-bucket/run/catalog.json">>) }

\* lines 239-241: the catalog location, prefixed with s3:// when it is not
NormalizeS3Path(uri) == IF uri[1] = "s3://" THEN uri ELSE <<"s3://", uri[1] \o uri[2]>>

\* status codes of the two registration responses
RegistrationStatuses == {200, 500}

----------------------------------------------------------------------------
(* post_execution_hook *)

\* lines 226-232: os.environ[name] = additional_parameters[parameter], in this order
ExportedVariables ==
    << <<"AWS_S3_ENDPOINT", "STAGEOUT_AWS_SERVICEURL">>,
       <<"AWS_ACCESS_KEY_ID", "STAGEOUT_AWS_ACCESS_KEY_ID">>,
       <<"AWS_SECRET_ACCESS_KEY", "STAGEOUT_AWS_SECRET_ACCESS_KEY">>,
       <<"AWS_REGION", "STAGEOUT_AWS_REGION">>,
       <<"STAGEOUT_PULSAR_URL", "STAGEOUT_PULSAR_URL">>,
       <<"WORKSPACE_DOMAIN", "WORKSPACE_DOMAIN">>,
       <<"STAGEOUT_ACCESS_POINT", "STAGEOUT_ACCESS_POINT">> >>

\* the assignments from the n-th on; os.environ refuses a value that is not a string
\* (TypeError), and the assignments before it have been made
RECURSIVE ExportEnvironment(_, _, _)
ExportEnvironment(env, params, n) ==
    IF n > Len(ExportedVariables) THEN [ok |-> TRUE, environ |-> env]
    ELSE LET name == ExportedVariables[n][1]
             value == params[ExportedVariables[n][2]]
         IN  IF value = None
             THEN [ok |-> FALSE, environ |-> env]
             ELSE ExportEnvironment([env EXCEPT ![name] = value], params, n + 1)

\* what the storage-reading layer finds in the environment: the exported variables
ExportedEnvironment(env) ==
    [n \in {ExportedVariables[k][1] : k \in DOMAIN ExportedVariables} |-> env[n]]

\* line 250: next(cat.get_all_collections()) gives a collection (cat is unbound
\* when the read raised: NameError, caught by the bare except)
HasCollection(read) == read.ok /\ Len(read.collections) > 0

\* lines 254-267: the items can be enumerated (NameError again when cat is unbound)
HasItems(read) == read.ok /\ read.items_resolvable

\* lines 248-270: the first collection of the catalog, else one made of its items,
\* else None
ConsolidateCollection(read, params, collection_id) ==
    IF HasCollection(read)
    THEN read.collections[1]
    ELSE IF HasItems(read)
    THEN ItemCollectionOf(read.items, params, collection_id)
    ELSE [class |-> "None"]

\* lines 285-308: the two registration requests; an ItemCollection has no
\* get_self_href, so building the second request raises AttributeError
RegisterInWorkspace(h, env, log, collection, collection_dict, r1, r2) ==
    LET endpoint == <<h.workspace_url, "workspaces", h.workspace_prefix, h.username>>
        headers == ("Authorization" :> <<"Bearer", h.ades_rx_token>>)
        register_json == [op |-> "POST",
                          url |-> Append(endpoint, "register-json"),
                          proxy |-> env["HTTP_PROXY"],
                          request |-> [headers |-> headers, json |-> collection_dict],
                          response |-> [status_code |-> r1]]
        log1 == Append(log, register_json)
    IN  IF collection.class = "ItemCollection"
        THEN [exception |-> "AttributeError", calls |-> log1]
        ELSE [exception |-> NoException,
              calls |-> Append(log1,
                 [op |-> "POST",
                  url |-> Append(endpoint, "register"),
                  proxy |-> env["HTTP_PROXY"],
                  request |-> [headers |-> headers,
                               json |-> [type |-> "stac-item",
                                         url |-> collection.self_href]],
                  response |-> [status_code |-> r2]])]

\* lines 218-308: the body of post_execution_hook's try block, given the outcome
\* of the export of lines 226-232
PostExecutionBody(h, params, exported, access_point, log, output, read, r1, r2) ==
    LET failed(x, e, ap, l) == [exception |-> x, handler |-> h, environ |-> e,
                                access_point |-> ap, calls |-> l]
    IN  IF ~exported.ok
        THEN failed("TypeError", exported.environ, access_point, log)
        ELSE
        LET env1 == exported.environ
            ap == params["STAGEOUT_ACCESS_POINT"]
        IN  IF "StacCatalogUri" \notin DOMAIN output
            THEN \* KeyError at line 237
                 failed("KeyError", env1, ap, log)
            ELSE
            LET log1 == Append(log,
                           [op |-> "read_file",
                            url |-> NormalizeS3Path(output["StacCatalogUri"]),
                            proxy |-> env1["HTTP_PROXY"],
                            request |-> [environ |-> ExportedEnvironment(env1),
                                         access_point |-> ap],
                            response |-> read])
                collection_id == params["collection_id"]
                collection == ConsolidateCollection(read, params, collection_id)
            IN  IF collection.class = "None"
                THEN [exception |-> NoException,
                      handler |-> [h EXCEPT !.feature_collection = JsonDumps(EmptyDict)],
                      environ |-> env1, access_point |-> ap, calls |-> log1]
                ELSE
                LET collection_dict == ConsolidatedDict(collection, collection_id)
                    h1 == [h EXCEPT !.feature_collection = JsonDumps(collection_dict)]
                IN  IF ~h.use_workspace
                    THEN [exception |-> NoException, handler |-> h1, environ |-> env1,
                          access_point |-> ap, calls |-> log1]
                    ELSE LET registered == RegisterInWorkspace(h1, env1, log1, collection,
                                                               collection_dict, r1, r2)
                         IN  [exception |-> registered.exception, handler |-> h1,
                              environ |-> env1, access_point |-> ap,
                              calls |-> registered.calls]

\* The inputs post_execution_hook gets to read, given how far it runs: the output
\* when the export succeeded, the catalog when the output names one, the response
\* of each registration request that is sent
OutputsRead(exported) == IF exported THEN Outputs ELSE {EmptyDict}

CatalogsRead(output) ==
    IF "StacCatalogUri" \in DOMAIN output
    THEN CatalogReads
    ELSE {[ok |-> FALSE, collections |-> <<>>, items |-> <<>>, items_resolvable |-> FALSE]}

RegisterJsonResponses(h, read) ==
    IF h.use_workspace /\ (HasCollection(read) \/ HasItems(read))
    THEN RegistrationStatuses
    ELSE {200}

RegisterResponses(h, read) ==
    IF h.use_workspace /\ HasCollection(read) THEN RegistrationStatuses ELSE {200}

\* post_execution_hook: unset the proxy, run the body, restore the proxy in finally.
\* The engine calls it after a pre_execution_hook that returned.
PostExecutionHook ==
    /\ pc = "pre_done"
    /\ LET env1 == unset_http_proxy_env(environ)
           h == handler
           params == additional_parameters
           exported == ExportEnvironment(env1, params, 1)
       IN  \E output \in OutputsRead(exported.ok) :
           \E read \in CatalogsRead(output) :
           \E r1 \in RegisterJsonResponses(h, read) :
           \E r2 \in RegisterResponses(h, read) :
              LET done == PostExecutionBody(h, params, exported, stacio_access_point,
                                            calls, output, read, r1, r2)
              IN  /\ handler' = done.handler
                  /\ stacio_access_point' = done.access_point
                  /\ calls' = done.calls
                  /\ environ' = restore_http_proxy_env(done.environ, h.http_proxy_env)
                  /\ exception' = done.exception
                  /\ pc' = IF done.exception # NoException THEN "post_raised" ELSE "post_done"
    /\ proxy_at_hook_start' = environ["HTTP_PROXY"]
    /\ UNCHANGED <<conf, additional_parameters, arguments, returned, outputs, cwd>>

----------------------------------------------------------------------------
(* The end of the service function *)

\* the statuses of the zoo module (lines 10-11)
SERVICE_SUCCEEDED == 3
SERVICE_FAILED == 4

\* the zoo module of the host, or the stub of lines 8-19 when it cannot be imported
ZooModules == {"zoo", "ZooStub"}

\* zoo._(message): the host's translation keeps the text, the stub returns None
Translate(zoo, message) == IF zoo = "ZooStub" THEN None ELSE message

\* list(outputs.keys())[0]: the key inserted first; the caller has checked
\* that there is one
FirstOutputKey(outs) == outs.keys[1]

\* lines 477-493 after runner.execute(): raised is the exception a hook let
\* through the runner, exit_status what the runner returned otherwise
ServiceBody(c, outs, h, raised, exit_status, zoo) ==
    IF raised # NoException
    THEN [ conf |-> [c EXCEPT !.lenv = DictSet(@, "message",
                        Translate(zoo, <<"Exception during execution...", raised>>))],
           outputs |-> outs,
           returned |-> SERVICE_FAILED ]
    ELSE IF exit_status = SERVICE_SUCCEEDED /\ Len(outs.keys) = 0
    THEN \* line 480: IndexError, caught by the except clause of line 488
         [ conf |-> [c EXCEPT !.lenv = DictSet(@, "message",
                        Translate(zoo, <<"Exception during execution...", "IndexError">>))],
           outputs |-> outs,
           returned |-> SERVICE_FAILED ]
    ELSE IF exit_status = SERVICE_SUCCEEDED
    THEN [ conf |-> c,
           outputs |-> [outs EXCEPT !.slots[FirstOutputKey(outs)] =
                           DictSet(@, "value", h.feature_collection)],
           returned |-> SERVICE_SUCCEEDED ]
    ELSE [ conf |-> [c EXCEPT !.lenv = DictSet(@, "message",
                        Translate(zoo, "Execution failed"))],
           outputs |-> outs,
           returned |-> SERVICE_FAILED ]

\* what runner.execute() returns after hooks that returned
ExitStatuses == {SERVICE_SUCCEEDED, SERVICE_FAILED}

\* the exit statuses and zoo modules the end of the service function reads
ExitStatusesRead(raised) == IF raised # NoException THEN {SERVICE_FAILED} ELSE ExitStatuses
ZooModulesRead(raised, exit_status, outs) ==
    IF raised = NoException /\ exit_status = SERVICE_SUCCEEDED /\ Len(outs.keys) > 0
    THEN {"zoo"} ELSE ZooModules

\* runner.execute() is over: a hook raised and the runner let it through, or
\* both hooks returned and the runner reports how the job went
ServiceReturn ==
    /\ pc \in {"pre_raised", "post_done", "post_raised"}
    /\ \E exit_status \in ExitStatusesRead(exception) :
       \E zoo \in ZooModulesRead(exception, exit_status, outputs) :
          LET done == ServiceBody(conf, outputs, handler, exception, exit_status, zoo)
          IN  /\ conf' = done.conf
              /\ outputs' = done.outputs
              /\ returned' = done.returned
    /\ pc' = "service_returned"
    /\ UNCHANGED <<environ, additional_parameters, handler, stacio_access_point,
                   calls, proxy_at_hook_start, exception, arguments, cwd>>

Next ==
    \/ EnvironmentChange
    \/ PreExecutionHook
    \/ PostExecutionHook
    \/ ServiceReturn

Spec == Init /\ [][Next]_vars

----------------------------------------------------------------------------
(* get_user_name called on its own *)

\* what a username-like claim of a decoded token holds: nothing (the claim is
\* absent), JSON null, the empty string, or a name
UserNameClaimValues == {Absent, None, "", "alice", "bob"}

\* the decoded tokens: every combination of the three username-like claims
DecodedTokens ==
    { [k \in {n \in {"username", "user_name", "preferred_username"} : f[n] # Absent} |-> f[k]] :
        f \in [{"username", "user_name", "preferred_username"} -> UserNameClaimValues] }

\* the static method is about to be called with a decoded token
GetUserNameInit ==
    /\ arguments \in {[decodedJwt |-> d] : d \in DecodedTokens}
    /\ returned = Unset
    /\ pc = "get_user_name"
    /\ environ = EmptyDict
    /\ conf = EmptyDict
    /\ additional_parameters = EmptyDict
    /\ handler = EmptyDict
    /\ stacio_access_point = None
    /\ calls = <<>>
    /\ proxy_at_hook_start = Absent
    /\ exception = NoException
    /\ outputs = EmptyDict
    /\ cwd = None

GetUserName ==
    /\ pc = "get_user_name"
    /\ returned' = get_user_name(arguments.decodedJwt)
    /\ pc' = "get_user_name_returned"
    /\ UNCHANGED <<environ, conf, additional_parameters, handler, stacio_access_point,
                   calls, proxy_at_hook_start, exception, arguments, outputs, cwd>>

GetUserNameNext == GetUserName

GetUserNameSpec == GetUserNameInit /\ [][GetUserNameNext]_vars

----------------------------------------------------------------------------
(* handle_outputs called on its own *)

\* str(i) of a natural number: its decimal digits
DecimalDigits == <<"0", "1", "2", "3", "4", "5", "6", "7", "8", "9">>

RECURSIVE Str(_)
Str(n) ==
    IF n < Len(DecimalDigits) THEN DecimalDigits[n + 1]
    ELSE Str(n \div Len(DecimalDigits)) \o DecimalDigits[(n % Len(DecimalDigits)) + 1]

\* paths of workflow step logs, each split at its last "/"
ToolLogPaths ==
    { [dirname |-> "/tmp/run", basename |-> "step-a.log"],
      [dirname |-> "/tmp/run", basename |-> "step-b.log"],
      [dirname |-> "/tmp/other", basename |-> "step-a.log"] }

\* os.path.basename
Basename(path) == path.basename

\* os.path.join of a base that does not end in "/" with relative components
PathJoin(base, middle, last) == base \o "/" \o middle \o "/" \o last

\* the link element of one tool log (lines 412-421); the caller has checked
\* that the keys of c it reads are there
ServiceLog(c, tool_log) ==
    [ url   |-> PathJoin(c["main"]["tmpUrl"],
                         c["lenv"]["Identifier"] \o "-" \o c["lenv"]["usid"],
                         Basename(tool_log)),
      title |-> "Tool log " \o Basename(tool_log),
      rel   |-> "related" ]

\* the keys under which the i-th link element (i counted from 0) is stored
ServiceLogKeys(i) ==
    [ okey \in {"url", "title", "rel"} |->
        IF i > 0 THEN okey \o "_" \o Str(i) ELSE okey ]

\* the loop of lines 422-431 from index i on: servicesLogs is a sequence, so the
\* element of Python index i is servicesLogs[i + 1]
RECURSIVE StoreServiceLogs(_, _, _)
StoreServiceLogs(c, servicesLogs, i) ==
    IF i >= Len(servicesLogs) THEN c
    ELSE LET keys == ServiceLogKeys(i)
             c1 == IF "service_logs" \notin DOMAIN c
                   THEN DictSet(c, "service_logs", EmptyDict) ELSE c
             stored == [k \in {keys[okey] : okey \in DOMAIN keys} |->
                          servicesLogs[i + 1][CHOOSE okey \in DOMAIN keys : keys[okey] = k]]
             c2 == [c1 EXCEPT !["service_logs"] = stored @@ c1["service_logs"]]
         IN  StoreServiceLogs(c2, servicesLogs, i + 1)

\* the body of handle_outputs: the new conf and the exception it raises
HandleOutputsBody(c, tool_logs) ==
    IF /\ Len(tool_logs) > 0
       /\ \/ "main" \notin DOMAIN c
          \/ "tmpUrl" \notin DOMAIN c["main"]
          \/ "lenv" \notin DOMAIN c
          \/ "Identifier" \notin DOMAIN c["lenv"]
          \/ "usid" \notin DOMAIN c["lenv"]
    THEN \* the list comprehension raises before conf is touched
         [conf |-> c, exception |-> "KeyError"]
    ELSE LET servicesLogs == [i \in 1..Len(tool_logs) |-> ServiceLog(c, tool_logs[i])]
             c1 == StoreServiceLogs(c, servicesLogs, 0)
         IN  IF "service_logs" \notin DOMAIN c1
             THEN \* line 433: self.conf["service_logs"] was never created
                  [conf |-> c1, exception |-> "KeyError"]
             ELSE [conf |-> [c1 EXCEPT !["service_logs"] =
                                DictSet(c1["service_logs"], "length", Str(Len(servicesLogs)))],
                   exception |-> NoException]

\* the parts of conf that handle_outputs reads, as the host fills them
HandleOutputsMain == ("tmpUrl" :> "https://host/temp")
HandleOutputsLenvs ==
    { ("Identifier" :> "workflow") @@ ("usid" :> "usid-42"),
      ("Identifier" :> "workflow") }

\* tool logs of up to MaxToolLogs paths
ToolLogLists == UNION {[1..n -> ToolLogPaths] : n \in 0..MaxToolLogs}

\* conf when handle_outputs is called: without a service_logs entry, with an
\* empty one, or with the one an earlier call left
HandleOutputsConfs ==
    LET base == {("main" :> HandleOutputsMain) @@ ("lenv" :> lenv) : lenv \in HandleOutputsLenvs}
        complete == ("main" :> HandleOutputsMain)
                        @@ ("lenv" :> (("Identifier" :> "workflow") @@ ("usid" :> "usid-41")))
        earlier == { HandleOutputsBody(complete, t).conf["service_logs"] :
                        t \in {u \in ToolLogLists : Len(u) \in {1, MaxToolLogs}} }
    IN  base
        \cup {DictSet(c, "service_logs", EmptyDict) : c \in base}
        \cup {DictSet(c, "service_logs", e) : c \in base,
                 e \in {x \in earlier : x["title"] = "Tool log step-b.log"}}

HandleOutputsInit ==
    /\ conf \in HandleOutputsConfs
    /\ arguments \in {[tool_logs |-> t] : t \in ToolLogLists}
    /\ returned = Unset
    /\ pc = "handle_outputs"
    /\ environ = EmptyDict
    /\ additional_parameters = EmptyDict
    /\ handler = EmptyDict
    /\ stacio_access_point = None
    /\ calls = <<>>
    /\ proxy_at_hook_start = Absent
    /\ exception = NoException
    /\ outputs = EmptyDict
    /\ cwd = None

HandleOutputs ==
    /\ pc = "handle_outputs"
    /\ LET done == HandleOutputsBody(conf, arguments.tool_logs)
       IN  /\ conf' = done.conf
           /\ exception' = done.exception
           /\ returned' = IF done.exception = NoException THEN None ELSE Unset
           /\ pc' = IF done.exception = NoException
                    THEN "handle_outputs_done" ELSE "handle_outputs_raised"
    /\ UNCHANGED <<environ, additional_parameters, handler, stacio_access_point,
                   calls, proxy_at_hook_start, arguments, outputs, cwd>>

HandleOutputsNext == HandleOutputs

HandleOutputsSpec == HandleOutputsInit /\ [][HandleOutputsNext]_vars

----------------------------------------------------------------------------
(* What the claims speak of *)

\* the positions in calls of the calls of one kind
CallsOf(op) == {i \in DOMAIN calls : calls[i].op = op}

\* the registration requests, in the order they were sent
Registrations == SelectSeq(calls, LAMBDA c : c.op = "POST")

\* the endpoint a request went to: the last segment of its URL
Endpoint(call) == call.url[Len(call.url)]

PreEnded == pc \in {"pre_done", "pre_raised"}
PostEnded == pc \in {"post_done", "post_raised"}

\* post_execution_hook returned, and the service function may have ended since
PostReturned ==
    \/ pc = "post_done"
    \/ pc = "service_returned" /\ exception = NoException

\* workspace_url and workspace_prefix are both configured
WorkspaceConfigured ==
    conf.eoepca.workspace_url # "" /\ conf.eoepca.workspace_prefix # ""

\* post_execution_hook produced a consolidated collection
CollectionProduced ==
    /\ handler.feature_collection.kind = "json"
    /\ handler.feature_collection.value # EmptyDict

\* the catalog read gave a catalog with no collection and no item
EmptyCatalog(read) ==
    /\ read.ok
    /\ read.items_resolvable
    /\ Len(read.collections) = 0
    /\ Len(read.items) = 0

\* a catalog with no collection and at least one item
ItemsOnlyCatalog(read) ==
    /\ read.ok
    /\ read.items_resolvable
    /\ Len(read.collections) = 0
    /\ Len(read.items) >= 1

\* the static default of a stage-out parameter, as init_config_defaults sets it
\* (nothing writes the STAGEOUT_AWS_* variables of the environment after construction)
StaticDefault(name) == EnvironGet(environ, name, ConfigDefaults[name])

----------------------------------------------------------------------------
(* Claims *)

\* C1 (as claimed): a hook sees no HTTP_PROXY at any of its calls, and a value v
\* that HTTP_PROXY held when the hook started is its value again when the hook
\* has ended, returned or raised, whatever the variable held at construction.
C1_ProxyClearedAndRestored ==
    [][pc' # pc =>
          /\ \A i \in DOMAIN calls' \ DOMAIN calls : calls'[i].proxy = Absent
          /\ Truthy(environ["HTTP_PROXY"]) => environ'["HTTP_PROXY"] = environ["HTTP_PROXY"]
      ]_vars

\* C1 (what the code keeps): no call of a hook sees HTTP_PROXY, and after a hook
\* HTTP_PROXY is the non-empty value captured at construction, else absent.
C1_ProxyClearedAndCapturedValueRestored ==
    [][pc' # pc =>
          /\ \A i \in DOMAIN calls' \ DOMAIN calls : calls'[i].proxy = Absent
          /\ environ'["HTTP_PROXY"] =
                IF Truthy(handler.http_proxy_env) THEN handler.http_proxy_env ELSE Absent
      ]_vars

\* C2 (as claimed): after a catalog with no collection and no item was read,
\* feature_collection is the empty object, no registration request was sent and
\* the hook returned.
C2_EmptyCatalogGivesEmptyObject ==
    \A i \in CallsOf("read_file") :
        EmptyCatalog(calls[i].response) =>
            /\ PostReturned
            /\ handler.feature_collection = JsonDumps(EmptyDict)
            /\ CallsOf("POST") = {}

\* C3 (as claimed): a registration request is sent only when the workspace is
\* configured and the lookup of pre_execution_hook got a 2xx response.
C3_RegistrationOnlyAfter2xx ==
    CallsOf("POST") # {} =>
        /\ WorkspaceConfigured
        /\ \E i \in CallsOf("GET") : calls[i].response.status_code \in 200..299

\* C3 (amended): a registration request is sent only when the workspace is
\* configured and the lookup of pre_execution_hook got a response that is not a
\* 4xx or 5xx one; unconfigured, or after a 4xx/5xx response, none is ever sent.
C3_RegistrationOnlyAfterOkLookup ==
    CallsOf("POST") # {} =>
        /\ WorkspaceConfigured
        /\ CallsOf("GET") # {}
        /\ \A i \in CallsOf("GET") : calls[i].response.status_code \notin 400..599

\* C3 witness: a registration request was sent after a lookup that got 200.
C3_Witness ==
    /\ CallsOf("POST") # {}
    /\ \E i \in CallsOf("GET") : calls[i].response.status_code = 200

\* C4 (as claimed): with use_workspace true and a collection produced, taken from
\* the catalog or made of its items, the hook sends one register-json request
\* with the collection, then one register request with type "stac-item" and the
\* self link, and returns, whatever the two responses are.
C4_RegistersCollectionThenSelfLink ==
    ( /\ PostEnded
      /\ handler.use_workspace
      /\ CollectionProduced
      /\ \E i \in CallsOf("read_file") :
            HasCollection(calls[i].response) \/ ItemsOnlyCatalog(calls[i].response) )
    =>  /\ pc = "post_done"
        /\ Len(Registrations) = 2
        /\ Endpoint(Registrations[1]) = "register-json"
        /\ Registrations[1].request.json = handler.feature_collection.value
        /\ Endpoint(Registrations[2]) = "register"
        /\ Registrations[2].request.json.type = "stac-item"

\* C5 (as claimed): every post_execution_hook given an output that names a catalog
\* reaches the catalog read, and the read finds the stage-out credentials and the
\* workspace identifiers of the scratch parameters in the environment.
C5_CatalogReadFollowsExport ==
    (PostEnded /\ exception # "KeyError") =>
        \E i \in CallsOf("read_file") :
            \A k \in DOMAIN ExportedVariables :
                calls[i].request.environ[ExportedVariables[k][1]] =
                    additional_parameters[ExportedVariables[k][2]]

\* C6 (as claimed): after a catalog read that raised, the hook returned,
\* feature_collection is the empty object, no registration request was sent, and
\* HTTP_PROXY is again what it was when the hook started.
C6_UnreadableCatalogGivesEmptyObject ==
    \A i \in CallsOf("read_file") :
        ~calls[i].response.ok =>
            /\ PostReturned
            /\ handler.feature_collection = JsonDumps(EmptyDict)
            /\ CallsOf("POST") = {}
            /\ Truthy(proxy_at_hook_start) => environ["HTTP_PROXY"] = proxy_at_hook_start

\* C6 (what the code keeps): the same without the proxy: after a catalog read that
\* raised, the hook returned, feature_collection is the empty object and no
\* registration request was sent.
C6_UnreadableCatalogGivesEmptyObjectProxyAside ==
    \A i \in CallsOf("read_file") :
        ~calls[i].response.ok =>
            /\ PostReturned
            /\ handler.feature_collection = JsonDumps(EmptyDict)
            /\ CallsOf("POST") = {}

\* the five fields of a credentials document and the parameter each one lands in
CredentialFields ==
    ("endpoint" :> "STAGEOUT_AWS_SERVICEURL")
 @@ ("access" :> "STAGEOUT_AWS_ACCESS_KEY_ID")
 @@ ("secret" :> "STAGEOUT_AWS_SECRET_ACCESS_KEY")
 @@ ("region" :> "STAGEOUT_AWS_REGION")
 @@ ("bucketname" :> "STAGEOUT_OUTPUT")

\* a 2xx response whose body holds storage.credentials with all five fields
GoodLookup(response) ==
    /\ response.status_code \in 200..299
    /\ WellFormedBody(response.body)
    /\ DOMAIN CredentialFields \subseteq DOMAIN response.body.doc["storage"]["credentials"]

\* C7: after a lookup that got a 2xx response with a well-formed body, the five
\* stage-out parameters are the body's endpoint, access, secret, region and
\* bucketname, and use_workspace is true.
C7_CredentialsFromWorkspace ==
    \A i \in CallsOf("GET") :
        GoodLookup(calls[i].response) =>
            /\ \A f \in DOMAIN CredentialFields :
                  additional_parameters[CredentialFields[f]] =
                      calls[i].response.body.doc["storage"]["credentials"][f]
            /\ handler.use_workspace

\* C7 witness: pre_execution_hook returned after such a lookup.
C7_Witness ==
    /\ pc = "pre_done"
    /\ \E i \in CallsOf("GET") : GoodLookup(calls[i].response)

\* the five stage-out parameters are the static defaults and use_workspace is false
StaticDefaultsUsed ==
    /\ \A name \in StageOutCredentialParams :
          additional_parameters[name] = StaticDefault(name)
    /\ ~handler.use_workspace

\* what C8 promises of a hook that used the static defaults
StaticDefaultsKept ==
    /\ StaticDefaultsUsed
    /\ pc = "pre_done"
    /\ ~WorkspaceConfigured => CallsOf("GET") = {}

\* the hook got past its first two steps: the in-cluster configuration was loaded
\* (the configmap read was attempted) and the token, if any, could be decoded
ClusterAndTokenUsable ==
    /\ CallsOf("read_namespaced_config_map") # {}
    /\ handler.ades_rx_token = "" \/ JwtDecode(handler.ades_rx_token).ok

C9_CollectionIdIsSupplied ==
    CollectionProduced =>
        /\ "id" \in DOMAIN handler.feature_collection.value
        /\ handler.feature_collection.value["id"] = additional_parameters["collection_id"]
        /\ additional_parameters["collection_id"] = DictGet(conf.lenv, "usid", "")
        /\ \A i \in CallsOf("POST") :
              Endpoint(calls[i]) = "register-json" =>
                  /\ "id" \in DOMAIN calls[i].request.json
                  /\ calls[i].request.json["id"] = additional_parameters["collection_id"]

\* C9 witness: a collection taken from the catalog, whose own id is another one,
\* was produced and sent to register-json.
C9_Witness ==
    /\ CollectionProduced
    /\ \E i \in CallsOf("read_file") :
          /\ HasCollection(calls[i].response)
          /\ calls[i].response.collections[1].id # additional_parameters["collection_id"]
    /\ \E i \in CallsOf("POST") : Endpoint(calls[i]) = "register-json"

\* the storage metadata every asset of a synthesized collection carries
StorageAnnotated(asset_dict) ==
    /\ {"storage:platform", "storage:requester_pays", "storage:tier",
        "storage:region", "storage:endpoint"} \subseteq DOMAIN asset_dict
    /\ asset_dict["storage:platform"] = "EOEPCA"
    /\ asset_dict["storage:requester_pays"] = FALSE
    /\ asset_dict["storage:tier"] = "Standard"
    /\ asset_dict["storage:region"] = additional_parameters["STAGEOUT_AWS_REGION"]
    /\ asset_dict["storage:endpoint"] = additional_parameters["STAGEOUT_AWS_SERVICEURL"]

\* C10 (as claimed): for a catalog with no collection and n >= 1 items the consolidated
\* collection holds n items, the catalog's items in order; every asset of every
\* item carries the storage metadata with the active region and endpoint, and
\* every item's collection is the supplied collection_id.
C10_ItemsConsolidated ==
    \A i \in CallsOf("read_file") :
        ItemsOnlyCatalog(calls[i].response) =>
            /\ handler.feature_collection.kind = "json"
            /\ "features" \in DOMAIN handler.feature_collection.value
            /\ LET features == handler.feature_collection.value["features"]
                   items == calls[i].response.items
               IN  /\ Len(features) = Len(items)
                   /\ \A n \in 1..Len(items) :
                         /\ features[n]["id"] = items[n].id
                         /\ "collection" \in DOMAIN features[n]
                         /\ features[n]["collection"] = additional_parameters["collection_id"]
                         /\ DOMAIN features[n]["assets"] = DOMAIN items[n].assets
                         /\ \A a \in DOMAIN items[n].assets :
                               /\ features[n]["assets"][a]["href"] = items[n].assets[a].href
                               /\ StorageAnnotated(features[n]["assets"][a])

\* C10 (amended): the same, except that an item carries the supplied
\* collection_id only when that id is not empty; with an empty collection_id
\* (no usid in the run configuration) the items of the recorded collection
\* carry no collection at all.
C10_ItemsConsolidatedCollectionIfNamed ==
    \A i \in CallsOf("read_file") :
        ItemsOnlyCatalog(calls[i].response) =>
            /\ handler.feature_collection.kind = "json"
            /\ "features" \in DOMAIN handler.feature_collection.value
            /\ LET features == handler.feature_collection.value["features"]
                   items == calls[i].response.items
                   collection_id == additional_parameters["collection_id"]
               IN  /\ Len(features) = Len(items)
                   /\ \A n \in 1..Len(items) :
                         /\ features[n]["id"] = items[n].id
                         /\ IF collection_id = ""
                            THEN "collection" \notin DOMAIN features[n]
                            ELSE /\ "collection" \in DOMAIN features[n]
                                 /\ features[n]["collection"] = collection_id
                         /\ DOMAIN features[n]["assets"] = DOMAIN items[n].assets
                         /\ \A a \in DOMAIN items[n].assets :
                               /\ features[n]["assets"][a]["href"] = items[n].assets[a].href
                               /\ StorageAnnotated(features[n]["assets"][a])

\* C10 witness: a catalog of two items, one of them with an asset that already
\* carried storage fields, was consolidated under a collection_id that is not
\* empty.
C10_Witness ==
    /\ PostEnded
    /\ additional_parameters["collection_id"] # ""
    /\ \E i \in CallsOf("read_file") :
          /\ ItemsOnlyCatalog(calls[i].response)
          /\ Len(calls[i].response.items) = 2
          /\ \E n \in 1..2 : "preview" \in DOMAIN calls[i].response.items[n].assets

----------------------------------------------------------------------------
(* get_user_name *)

\* a username-like claim that is there and holds a non-empty value
Populated(decodedJwt, key) ==
    key \in DOMAIN decodedJwt /\ decodedJwt[key] \notin {None, ""}

\* a username-like claim that is there, whatever it holds
Present(decodedJwt, key) == key \in DOMAIN decodedJwt

\* the value of the first claim, in the order of UserNameKeys, that satisfies
\* Chosen; the empty string when none does
FirstField(decodedJwt, Chosen(_, _)) ==
    LET found == {i \in 1..Len(UserNameKeys) : Chosen(decodedJwt, UserNameKeys[i])}
    IN  IF found = {} THEN ""
        ELSE decodedJwt[UserNameKeys[CHOOSE i \in found : \A j \in found : i <= j]]

\* C11 (as claimed): get_user_name returns the value of the first of username,
\* user_name, preferred_username that is populated in the decoded token, an
\* absent or empty field being skipped in favour of the next one, and the empty
\* string when none of the three is populated.
C11_FirstPopulatedField ==
    pc = "get_user_name_returned"
        => returned = FirstField(arguments.decodedJwt, Populated)

\* What the code keeps of C11: get_user_name returns the value of the first of
\* the three fields that is present in the decoded token, whatever it holds, and
\* the empty string when none is present.
C11_FirstPresentField ==
    pc = "get_user_name_returned"
        => returned = FirstField(arguments.decodedJwt, Present)

----------------------------------------------------------------------------
(* handle_outputs *)

HandleOutputsEnded == pc \in {"handle_outputs_done", "handle_outputs_raised"}

\* conf holds everything a link element is built from
RunConfigured ==
    /\ "main" \in DOMAIN conf /\ "tmpUrl" \in DOMAIN conf["main"]
    /\ "lenv" \in DOMAIN conf /\ {"Identifier", "usid"} \subseteq DOMAIN conf["lenv"]

\* the entries url<suffix>, title<suffix>, rel<suffix> of service_logs describe tool_log
Describes(service_logs, suffix, tool_log) ==
    /\ {"url" \o suffix, "title" \o suffix, "rel" \o suffix} \subseteq DOMAIN service_logs
    /\ service_logs["url" \o suffix] =
           conf["main"]["tmpUrl"] \o "/" \o conf["lenv"]["Identifier"] \o "-"
               \o conf["lenv"]["usid"] \o "/" \o tool_log.basename
    /\ service_logs["title" \o suffix] = "Tool log " \o tool_log.basename
    /\ service_logs["rel" \o suffix] = "related"

\* handle_outputs returned and service_logs describes the n tool logs
ServiceLogsDescribeToolLogs ==
    LET tool_logs == arguments.tool_logs
        n == Len(tool_logs)
    IN  /\ pc = "handle_outputs_done"
        /\ exception = NoException
        /\ "service_logs" \in DOMAIN conf
        /\ "length" \in DOMAIN conf["service_logs"]
        /\ conf["service_logs"]["length"] = Str(n)
        /\ n >= 1 => Describes(conf["service_logs"], "", tool_logs[1])
        /\ \A i \in 1..(n - 1) :
              Describes(conf["service_logs"], "_" \o Str(i), tool_logs[i + 1])

\* C12 (as claimed): for every list of n >= 0 tool logs and every starting
\* configuration, with or without an existing service_logs entry,
\* handle_outputs completes without raising and leaves service_logs with length
\* equal to the string form of n, url, title, rel describing the first tool log
\* and url_i, title_i, rel_i describing the i-th for i in 1..n-1, each rel
\* being "related".
C12_ServiceLogsDescribeToolLogs ==
    (HandleOutputsEnded /\ RunConfigured) => ServiceLogsDescribeToolLogs

\* What the code keeps of C12: the same, when there is at least one tool log
\* or conf already has a service_logs entry.
C12_ServiceLogsDescribeToolLogsWhenCreated ==
    ( /\ HandleOutputsEnded
      /\ RunConfigured
      /\ Len(arguments.tool_logs) >= 1 \/ "service_logs" \in DOMAIN conf )
        => ServiceLogsDescribeToolLogs

\* handle_outputs raises KeyError exactly when it is given no tool log and conf
\* has no service_logs entry, or a tool log and conf lacks a key the links need
C12_RaisesOnlyWithoutServiceLogs ==
    pc = "handle_outputs_raised"
        => /\ exception = "KeyError"
           /\ \/ Len(arguments.tool_logs) = 0 /\ "service_logs" \notin DOMAIN conf
              \/ Len(arguments.tool_logs) >= 1 /\ ~RunConfigured

====
